---- MODULE Spec2Model ----
(***************************************************************************)
(* A model of scr/calc_func.py, the computation of a VIX-style index from  *)
(* option quotes and a risk-free curve.                                    *)
(*                                                                         *)
(* Numbers.  The program computes in float64.  The model computes in exact *)
(* rationals [n, d] (d > 0, reduced), so that every comparison the code    *)
(* makes (maturity >= 7/365, strike < F, idxmin, ...) is decided on exact  *)
(* values.  A maturity is a year fraction h / (TicksPerDay * YEARS), where *)
(* h counts ticks of 1/TicksPerDay day.  Strikes and prices are integers   *)
(* (multiples of the market's price tick).  A pandas NaN cell is the empty *)
(* sequence <<>>, a cell holding v is <<v>>.  A raised exception is a      *)
(* record [type, msg, printed].                                            *)
(***************************************************************************)
EXTENDS Integers, Sequences, FiniteSets, TLC

VARIABLES pc, raised,
          opt_data, shibor_data, filter_opt_data, maturity_ser, sel_rate, data_all,
          shibor_ser, near_term, next_tern, rate_ret,
          df_arg, method_arg, sigma_variable,
          near_sigma_variable, next_sigma_variable, variable

batchVars == <<opt_data, shibor_data, filter_opt_data, maturity_ser, sel_rate, data_all>>

rateVars == <<shibor_ser, near_term, next_tern, rate_ret>>

sigmaVars == <<df_arg, method_arg, sigma_variable>>

vixVars == <<near_sigma_variable, next_sigma_variable, variable>>

vars == <<pc, raised, batchVars, rateVars, sigmaVars, vixVars>>

(***************************************************************************)
(* Program constants.                                                      *)
(***************************************************************************)
YEARS == 365

\* default arguments of _get_near_or_next_options
n_default == 1

filter_num_default == 7

(***************************************************************************)
(* Bounds of the model.                                                    *)
(***************************************************************************)
\* ticks per day: the resolution of a maturity
TicksPerDay == 2

\* a quote of a batch expires between one day before the 7-day filter and
\* MaxSpan days after it
MaxSpan == 2

\* curve values are 1..MaxRate
MaxRate == 2

\* direct calls of _get_free_rate: the curve has day-counts 1..MaxDayCount
MaxDayCount == 3

\* strikes are 1..MaxStrike price ticks
MaxStrike == 3

\* closing prices are 0..MaxPrice price ticks
MaxPrice == 2


(***************************************************************************)
(* Exact rationals.                                                        *)
(***************************************************************************)
Abs(x) == IF x < 0 THEN -x ELSE x

RECURSIVE GCD(_, _)
GCD(a, b) == IF b = 0 THEN a ELSE GCD(b, a % b)

\* n/d reduced, d > 0
Rat(n, d) ==
    LET s == IF d < 0 THEN -1 ELSE 1
        g == GCD(Abs(n), Abs(d))
    IN  [n |-> (s * n) \div g, d |-> (s * d) \div g]

RInt(k) == [n |-> k, d |-> 1]

RLt(a, b) == a.n * b.d < b.n * a.d

RLe(a, b) == a.n * b.d <= b.n * a.d

RAdd(a, b) ==
    LET g == GCD(a.d, b.d)
    IN  Rat(a.n * (b.d \div g) + b.n * (a.d \div g), (a.d \div g) * b.d)

RNeg(a) == [n |-> -a.n, d |-> a.d]

RSub(a, b) == RAdd(a, RNeg(b))

\* cross-reduced product
RMul(a, b) ==
    LET g1 == GCD(Abs(a.n), b.d)
        g2 == GCD(Abs(b.n), a.d)
        h1 == IF g1 = 0 THEN 1 ELSE g1
        h2 == IF g2 = 0 THEN 1 ELSE g2
    IN  Rat((a.n \div h1) * (b.n \div h2), (a.d \div h2) * (b.d \div h1))

\* a / b, b # 0
RDiv(a, b) == RMul(a, Rat(b.d, b.n))

\* Python's round(x): to the nearest integer, a tie to the even one (x >= 0)
round(x) ==
    LET q == x.n \div x.d
        r == x.n % x.d
    IN  IF 2 * r < x.d THEN q
        ELSE IF 2 * r > x.d THEN q + 1
        ELSE IF q % 2 = 0 THEN q ELSE q + 1

\* the year fraction of h ticks
Maturity(h) == Rat(h, TicksPerDay * YEARS)

(***************************************************************************)
(* Sequences.                                                              *)
(***************************************************************************)
Range(s) == {s[i] : i \in 1..Len(s)}

RECURSIVE FlattenSeq(_)
FlattenSeq(ss) == IF ss = <<>> THEN <<>> ELSE Head(ss) \o FlattenSeq(Tail(ss))

\* pandas/numpy unique(): the distinct values in order of first appearance
RECURSIVE unique(_)
unique(s) ==
    IF s = <<>> THEN <<>>
    ELSE LET front == unique(SubSeq(s, 1, Len(s) - 1))
             x == s[Len(s)]
         IN  IF x \in Range(front) THEN front ELSE Append(front, x)

\* np.sort of rationals: insertion sort, ascending
RECURSIVE InsertRat(_, _)
InsertRat(x, s) ==
    IF s = <<>> THEN <<x>>
    ELSE IF RLe(x, Head(s)) THEN <<x>> \o s
    ELSE <<Head(s)>> \o InsertRat(x, Tail(s))

RECURSIVE np_sort(_)
np_sort(s) == IF s = <<>> THEN <<>> ELSE InsertRat(Head(s), np_sort(Tail(s)))

\* np.min / np.max of a non-empty sequence of rationals
RECURSIVE np_min(_)
np_min(s) ==
    IF Len(s) = 1 THEN s[1]
    ELSE LET m == np_min(Tail(s)) IN IF RLe(Head(s), m) THEN Head(s) ELSE m

RECURSIVE np_max(_)
np_max(s) ==
    IF Len(s) = 1 THEN s[1]
    ELSE LET m == np_max(Tail(s)) IN IF RLe(m, Head(s)) THEN Head(s) ELSE m

Col(df, c) == [i \in 1..Len(df) |-> df[i][c]]

NoError == [type |-> "none", msg |-> "", printed |-> <<>>]

(***************************************************************************)
(* Term Selector.                                                          *)
(***************************************************************************)
\* the selector with the comparison of line 37 made strict
SelectorStrict(df, n, filter_num) ==
    LET kept == SelectSeq(df, LAMBDA r : RLe(Rat(filter_num, YEARS), r.maturity))
        sorted == np_sort(unique(Col(kept, "maturity")))
    IN  IF Len(sorted) < n + 1
        THEN [raised |-> [type |-> "IndexError", msg |-> "index out of bounds",
                          printed |-> <<>>],
              value |-> <<>>]
        ELSE [raised |-> NoError,
              value |-> SelectSeq(kept, LAMBDA r : RLt(r.maturity, sorted[n + 1]))]

\* _get_near_or_next_options(df, n, filter_num): [raised, value]
_get_near_or_next_options(df, n, filter_num) ==
    LET kept == SelectSeq(df, LAMBDA r : RLe(Rat(filter_num, YEARS), r.maturity))
        sorted == np_sort(unique(Col(kept, "maturity")))
    IN  IF Len(sorted) < n + 1
        THEN [raised |-> [type |-> "IndexError", msg |-> "index out of bounds",
                          printed |-> <<>>],
              value |-> <<>>]
        ELSE [raised |-> NoError,
              value |-> SelectSeq(kept, LAMBDA r : RLe(r.maturity, sorted[n + 1]))]

(***************************************************************************)
(* Rate Resolver.                                                          *)
(***************************************************************************)
Max2(a, b) == IF a >= b THEN a ELSE b

near_day_count(term) == Max2(round(RMul(term, RInt(YEARS))), 1)

next_day_count(term) == round(RMul(term, RInt(YEARS)))

\* _get_free_rate(shibor_ser, near_term, next_tern): [raised, value]
\* shibor_ser is a function from the day-counts the curve has to their rates.
_get_free_rate(ser, near, next) ==
    LET near_term_ == near_day_count(near)
        next_tern_ == next_day_count(next)
    IN  IF near_term_ \notin DOMAIN ser
        THEN [raised |-> [type |-> "KeyError", msg |-> "no matching shibor",
                          printed |-> <<near, next, RInt(near_term_), RInt(next_tern_)>>],
              value |-> <<>>]
        ELSE IF next_tern_ \notin DOMAIN ser
        THEN [raised |-> [type |-> "KeyError", msg |-> "label not in index",
                          printed |-> <<>>],
              value |-> <<>>]
        ELSE [raised |-> NoError, value |-> <<ser[near_term_], ser[next_tern_]>>]


(***************************************************************************)
(* Strike Matrix Builder.                                                  *)
(***************************************************************************)
RECURSIVE InsertInt(_, _)
InsertInt(x, s) ==
    IF s = <<>> THEN <<x>>
    ELSE IF x <= Head(s) THEN <<x>> \o s
    ELSE <<Head(s)>> \o InsertInt(x, Tail(s))

\* the sorted index pivot_table builds from the keys it met
RECURSIVE SortIndex(_)
SortIndex(s) == IF s = <<>> THEN <<>> ELSE InsertInt(Head(s), SortIndex(Tail(s)))

RECURSIVE SumClose(_)
SumClose(rows) == IF rows = <<>> THEN 0 ELSE Head(rows).close + SumClose(Tail(rows))

\* aggfunc='mean' over the quotes of one (strike, type); NaN when there is
\* none.  (strike, type) is a key of the quotes, so a cell averages one quote.
PivotCell(df, k, t) ==
    LET rows == SelectSeq(df, LAMBDA r : r.exercise_price = k /\ r.contract_type = t)
    IN  IF rows = <<>> THEN <<>> ELSE <<SumClose(rows) \div Len(rows)>>

KeyError(what) == [type |-> "KeyError", msg |-> what, printed |-> <<>>]

\* _build_strike_matrix(df): [raised, value]; a row is
\* [exercise_price, call, put, diff], the rows ascending in exercise_price
_build_strike_matrix(df) ==
    LET index == SortIndex(unique(Col(df, "exercise_price")))
        types == {df[i].contract_type : i \in 1..Len(df)}
    IN  IF "call" \notin types THEN [raised |-> KeyError("call"), value |-> <<>>]
        ELSE IF "put" \notin types THEN [raised |-> KeyError("put"), value |-> <<>>]
        ELSE [raised |-> NoError,
              value |-> [i \in 1..Len(index) |->
                  LET c == PivotCell(df, index[i], "call")
                      p == PivotCell(df, index[i], "put")
                  IN  [exercise_price |-> index[i], call |-> c, put |-> p,
                       diff |-> IF c = <<>> \/ p = <<>> THEN <<>>
                                ELSE <<c[1] - p[1]>>]]]

\* DataFrame.dropna(): the rows without a NaN cell
dropna(matrix) ==
    SelectSeq(matrix, LAMBDA r : r.call # <<>> /\ r.put # <<>> /\ r.diff # <<>>)

(***************************************************************************)
(* Forward Price Estimator.                                                *)
(***************************************************************************)
\* Series.idxmin(): the position of the first smallest value
RECURSIVE idxmin(_)
idxmin(vals) ==
    IF Len(vals) = 1 THEN 1
    ELSE LET front == SubSeq(vals, 1, Len(vals) - 1)
             i == idxmin(front)
         IN  IF vals[Len(vals)] < vals[i] THEN Len(vals) ELSE i

ValueError(what) == [type |-> "ValueError", msg |-> what, printed |-> <<>>]

\* the anchor taken at the last smallest |diff| instead of the first
MinStrikeDiffLast(strike_matrix) ==
    IF strike_matrix = <<>>
    THEN [raised |-> ValueError("attempt to get argmin of an empty sequence"),
          value |-> <<>>]
    ELSE LET absdiff == [i \in 1..Len(strike_matrix) |-> Abs(strike_matrix[i].diff[1])]
             last == CHOOSE i \in 1..Len(absdiff) :
                        /\ \A j \in 1..Len(absdiff) : absdiff[i] <= absdiff[j]
                        /\ \A j \in (i + 1)..Len(absdiff) : absdiff[i] < absdiff[j]
         IN  [raised |-> NoError, value |-> <<strike_matrix[last]>>]

\* _get_min_strike_diff(strike_matrix): [raised, value]
_get_min_strike_diff(strike_matrix) ==
    IF strike_matrix = <<>>
    THEN [raised |-> ValueError("attempt to get argmin of an empty sequence"),
          value |-> <<>>]
    ELSE LET absdiff == [i \in 1..Len(strike_matrix) |-> Abs(strike_matrix[i].diff[1])]
         IN  [raised |-> NoError, value |-> <<strike_matrix[idxmin(absdiff)]>>]

\* np.exp(x), by the first two terms of its series: Exp(0) = 1, Exp(x) > 1
\* for x > 0
Exp(x) == RAdd(RInt(1), x)

\* calc_F(K, R, T, C, P)
calc_F(K, R, T, C, P) == RAdd(RInt(K), RMul(Exp(RMul(RInt(R), T)), RInt(C - P)))

(***************************************************************************)
(* Mid-Quote Synthesizer.                                                  *)
(***************************************************************************)
\* Series.sort_index() of a series of [exercise_price, value] entries
RECURSIVE InsertEntry(_, _)
InsertEntry(e, s) ==
    IF s = <<>> THEN <<e>>
    ELSE IF e.exercise_price < Head(s).exercise_price THEN <<e>> \o s
    ELSE <<Head(s)>> \o InsertEntry(e, Tail(s))

RECURSIVE sort_index(_)
sort_index(s) ==
    IF s = <<>> THEN <<>>
    ELSE InsertEntry(s[Len(s)], sort_index(SubSeq(s, 1, Len(s) - 1)))

Leg(rows, leg) ==
    [i \in 1..Len(rows) |->
        [exercise_price |-> rows[i].exercise_price, value |-> RInt(rows[i][leg][1])]]

\* the table with the K_0 row left at its put price instead of the mean
MedianTableUnblended(strike_matrix, F) ==
    LET below == SelectSeq(strike_matrix, LAMBDA r : RLt(RInt(r.exercise_price), F))
        empty_put == below = <<>>
        K_0 == IF empty_put THEN F
               ELSE RInt(below[idxmin([i \in 1..Len(below) |-> below[i].diff[1]])]
                             .exercise_price)
        call_ser == Leg(SelectSeq(strike_matrix,
                                  LAMBDA r : RLt(K_0, RInt(r.exercise_price))), "call")
        put_ser == Leg(SelectSeq(strike_matrix,
                                 LAMBDA r : RLe(RInt(r.exercise_price), K_0)), "put")
    IN  IF ~empty_put
        THEN [median_table |-> sort_index(put_ser \o call_ser), K_0 |-> K_0,
              warned |-> FALSE]
        ELSE [median_table |-> sort_index(call_ser), K_0 |-> K_0, warned |-> TRUE]

\* _get_median_price_table(strike_matrix, F): [median_table, K_0, warned]
_get_median_price_table(strike_matrix, F) ==
    LET below == SelectSeq(strike_matrix, LAMBDA r : RLt(RInt(r.exercise_price), F))
        empty_put == below = <<>>
        K_0 == IF empty_put THEN F
               ELSE RInt(below[idxmin([i \in 1..Len(below) |-> below[i].diff[1]])]
                             .exercise_price)
        call_ser == Leg(SelectSeq(strike_matrix,
                                  LAMBDA r : RLt(K_0, RInt(r.exercise_price))), "call")
    IN  IF ~empty_put
        THEN LET at == CHOOSE r \in Range(strike_matrix) : RInt(r.exercise_price) = K_0
                 put_ser == Leg(SelectSeq(strike_matrix,
                                          LAMBDA r : RLt(RInt(r.exercise_price), K_0)),
                                "put")
                 median == RMul(RInt(at.call[1] + at.put[1]), Rat(1, 2))
                 all_ser == Append(put_ser, [exercise_price |-> at.exercise_price,
                                             value |-> median]) \o call_ser
             IN  [median_table |-> sort_index(all_ser), K_0 |-> K_0, warned |-> FALSE]
        ELSE [median_table |-> sort_index(call_ser), K_0 |-> K_0, warned |-> TRUE]

(***************************************************************************)
(* Strike-Weight Calculator.                                               *)
(***************************************************************************)
IndexError(what) == [type |-> "IndexError", msg |-> what, printed |-> <<>>]

\* the weights with the interior rule applied to the last strike as well,
\* which needs a strike after it
DeltaKNeedsThree(table) ==
    LET exercise_price == Col(table, "exercise_price")
        size == Len(exercise_price)
    IN  IF size < 3
        THEN [raised |-> IndexError("index 2 is out of bounds"), value |-> <<>>]
        ELSE [raised |-> NoError,
              value |-> [i \in 1..size |->
                  [exercise_price |-> exercise_price[i],
                   value |->
                      IF i = size
                      THEN RInt(exercise_price[size] - exercise_price[size - 1])
                      ELSE IF i = 1
                      THEN RInt(exercise_price[2] - exercise_price[1])
                      ELSE RMul(Rat(1, 2),
                                RInt(exercise_price[i + 1] - exercise_price[i - 1]))]]]

\* calc_delta_k_table(strike_matrix): [raised, value]
calc_delta_k_table(table) ==
    LET exercise_price == Col(table, "exercise_price")
        size == Len(exercise_price)
    IN  IF size < 2
        THEN [raised |-> IndexError("index 1 is out of bounds"), value |-> <<>>]
        ELSE [raised |-> NoError,
              value |-> [i \in 1..size |->
                  [exercise_price |-> exercise_price[i],
                   value |->
                      IF i = size
                      THEN RInt(exercise_price[size] - exercise_price[size - 1])
                      ELSE IF i = 1
                      THEN RInt(exercise_price[2] - exercise_price[1])
                      ELSE RMul(Rat(1, 2),
                                RInt(exercise_price[i + 1] - exercise_price[i - 1]))]]]

(***************************************************************************)
(* Variance Estimator.                                                     *)
(***************************************************************************)
\* float64 nan
NaN == [n |-> 0, d |-> 0]

RECURSIVE SumTerms(_, _, _, _)
SumTerms(K, delta_K, Q_K, growth) ==
    IF K = <<>> THEN RInt(0)
    ELSE RAdd(RMul(RMul(RDiv(Head(delta_K), RInt(Head(K) * Head(K))), growth), Head(Q_K)),
              SumTerms(Tail(K), Tail(delta_K), Tail(Q_K), growth))

\* calc_sigma(K_0, K, delta_K, Q_K, F, R, T); F / K_0 is nan when K_0 = F = 0
calc_sigma(K_0, K, delta_K, Q_K, F, R, T) ==
    IF K_0.n = 0 THEN NaN
    ELSE LET x == RSub(RDiv(F, K_0), RInt(1))
         IN  RSub(RMul(RDiv(RInt(2), T), SumTerms(K, delta_K, Q_K, Exp(RMul(RInt(R), T)))),
                  RMul(RDiv(RInt(1), T), RMul(x, x)))

\* the locals of _get_sigma not yet assigned
NoLocals ==
    [raised |-> NoError, strike_matrix |-> <<>>, strike_row |-> <<>>, term |-> NaN,
     term_rate |-> 0, F |-> NaN, median_table |-> <<>>, K0 |-> NaN, warned |-> FALSE,
     delta_k |-> <<>>, sigma |-> NaN]

Rates(df, method) == IF method = "near" THEN df[1].near_rate ELSE df[1].next_rate

Maturities(df, method) ==
    IF method = "near" THEN df[1].near_maturity ELSE df[1].next_maturity

\* _get_sigma(df, method): the locals it has assigned when it returns or
\* raises (raised says which); on a return the dict of lines 349-358
_get_sigma(df, method) ==
    IF method \notin {"near", "next"}
    THEN [NoLocals EXCEPT !.raised = ValueError("method")]
    ELSE LET built == _build_strike_matrix(df)
             strike_matrix == dropna(built.value)
             found == _get_min_strike_diff(strike_matrix)
         IN  IF built.raised # NoError THEN [NoLocals EXCEPT !.raised = built.raised]
             ELSE IF found.raised # NoError
             THEN [NoLocals EXCEPT !.raised = found.raised,
                                   !.strike_matrix = strike_matrix]
             ELSE LET strike_row == found.value[1]
                      term == Maturities(df, method)
                      term_rate == Rates(df, method)
                      F == calc_F(strike_row.exercise_price, term_rate, term,
                                  strike_row.call[1], strike_row.put[1])
                      mt == _get_median_price_table(strike_matrix, F)
                      delta_k == calc_delta_k_table(mt.median_table)
                      sofar == [NoLocals EXCEPT !.strike_matrix = strike_matrix,
                                                !.strike_row = found.value,
                                                !.term = term, !.term_rate = term_rate,
                                                !.F = F,
                                                !.median_table = mt.median_table,
                                                !.K0 = mt.K_0, !.warned = mt.warned]
                  IN  IF delta_k.raised # NoError
                      THEN [sofar EXCEPT !.raised = delta_k.raised]
                      ELSE [sofar EXCEPT
                              !.delta_k = delta_k.value,
                              !.sigma = calc_sigma(mt.K_0,
                                                   Col(mt.median_table, "exercise_price"),
                                                   Col(delta_k.value, "value"),
                                                   Col(mt.median_table, "value"),
                                                   F, term_rate, term)]

(***************************************************************************)
(* Index Blender.                                                          *)
(***************************************************************************)
\* calc_weight(t1, t2)
calc_weight(t1, t2) == RDiv(RSub(t2, Rat(30, YEARS)), RSub(t2, t1))

\* calc_vix(near_sigma, next_sigma, near_term, next_term).  The square root
\* of a rational is not a rational: the value is the square of the float the
\* code returns, and nan when the radicand is negative or a sigma is nan.
calc_vix(near_sigma, next_sigma, near, next) ==
    IF near_sigma = NaN \/ next_sigma = NaN THEN NaN
    ELSE LET weight == calc_weight(near, next)
             radicand == RMul(RAdd(RMul(RMul(near, near_sigma), weight),
                                   RMul(RMul(next, next_sigma),
                                        RSub(RInt(1), weight))),
                              Rat(YEARS, 30))
         IN  IF radicand.n < 0 THEN NaN ELSE radicand

\* the namedtuple of lines 429-463
Variable(near_v, next_v, vix) ==
    [strike_matrix |-> [near |-> near_v.strike_matrix,
                        next |-> near_v.strike_matrix],
     F |-> [near |-> near_v.F, next |-> near_v.F],
     K |-> [near |-> near_v.K0, next |-> near_v.K0],
     median_table |-> [near |-> near_v.median_table,
                       next |-> near_v.median_table],
     delta_k |-> [near |-> near_v.delta_k,
                  next |-> near_v.delta_k],
     sigma |-> [near |-> near_v.sigma,
                next |-> near_v.sigma],
     rate |-> [near |-> near_v.term_rate,
               next |-> near_v.term_rate],
     term |-> [near |-> near_v.term,
               next |-> near_v.term],
     vix |-> vix]

(***************************************************************************)
(* Batch Preparer.                                                         *)
(***************************************************************************)
\* groupby('date'): the dates in ascending order, and a date's rows in the
\* order they have in the table
RECURSIVE SortInts(_)
SortInts(S) ==
    IF S = {} THEN <<>>
    ELSE LET m == CHOOSE x \in S : \A y \in S : x <= y
         IN  <<m>> \o SortInts(S \ {m})

Dates(df) == SortInts({df[i].date : i \in 1..Len(df)})

Group(df, d) == SelectSeq(df, LAMBDA r : r.date = d)

\* step 1: opt_data.groupby('date', group_keys=False).apply(
\*             _get_near_or_next_options, filter_num=7)
\* the first group that raises ends the apply
RECURSIVE ApplySelector(_, _)
ApplySelector(df, dates) ==
    IF dates = <<>> THEN [raised |-> NoError, value |-> <<>>]
    ELSE LET one == _get_near_or_next_options(Group(df, Head(dates)), n_default,
                                              filter_num_default)
         IN  IF one.raised # NoError THEN one
             ELSE LET rest == ApplySelector(df, Tail(dates))
                  IN  IF rest.raised # NoError THEN rest
                      ELSE [raised |-> NoError, value |-> one.value \o rest.value]

\* maturity_ser: date -> x['maturity'].unique()
MaturitySer(fdf) ==
    [d \in Range(Dates(fdf)) |-> unique(Col(Group(fdf, d), "maturity"))]

\* step 2: shibor_data.loc[maturity_ser.index].apply(_get_free_rate(...), axis=1)
\* date -> (rate, rate); the first row that raises ends the apply
RECURSIVE ApplyFreeRate(_, _, _)
ApplyFreeRate(shibor, mser, dates) ==
    IF dates = <<>> THEN [raised |-> NoError, value |-> <<>>]
    ELSE LET d == Head(dates)
             one == _get_free_rate(shibor[d], np_min(mser[d]), np_max(mser[d]))
         IN  IF one.raised # NoError THEN one
             ELSE LET rest == ApplyFreeRate(shibor, mser, Tail(dates))
                  IN  IF rest.raised # NoError THEN rest
                      ELSE [raised |-> NoError,
                            value |-> <<[date |-> d, rates |-> one.value]>> \o rest.value]

IntMin(s) == CHOOSE x \in Range(s) : \A y \in Range(s) : x <= y

IntMax(s) == CHOOSE x \in Range(s) : \A y \in Range(s) : x >= y

RatesOf(sel, d) == (CHOOSE e \in Range(sel) : e.date = d).rates

\* step 3: the near/next columns of a date, merged onto each filtered row
Enrich(fdf, mser, sel) ==
    [i \in 1..Len(fdf) |->
        LET d == fdf[i].date
        IN  [date |-> d,
             maturity |-> fdf[i].maturity,
             near_maturity |-> np_min(mser[d]),
             next_maturity |-> np_max(mser[d]),
             near_rate |-> IntMin(RatesOf(sel, d)),
             next_rate |-> IntMax(RatesOf(sel, d))]]

\* prepare_data2calc(opt_data, shibor_data) as a whole: [raised, value]
prepare_data2calc(opt, shibor) ==
    LET s1 == ApplySelector(opt, Dates(opt))
    IN  IF s1.raised # NoError THEN s1
        ELSE LET mser == MaturitySer(s1.value)
                 s2 == ApplyFreeRate(shibor, mser, Dates(s1.value))
             IN  IF s2.raised # NoError THEN s2
                 ELSE [raised |-> NoError, value |-> Enrich(s1.value, mser, s2.value)]

(***************************************************************************)
(* The inputs of a batch.                                                  *)
(***************************************************************************)
\* the trading dates of a batch
TradingDates == 1..2

\* the expiries of a batch, in days from the trading date
BatchDays == (filter_num_default - 1)..(filter_num_default + MaxSpan)

\* the day-counts a batch can ask the curve for
BatchDayCounts == filter_num_default..(filter_num_default + MaxSpan)

RECURSIVE Reverse(_)
Reverse(s) == IF s = <<>> THEN <<>> ELSE Append(Reverse(Tail(s)), Head(s))

\* the quotes of date d: one per expiry of the set, nearest or farthest first
DayRows(d, days, desc) ==
    LET asc == SortInts(days)
        ord == IF desc THEN Reverse(asc) ELSE asc
    IN  [i \in 1..Len(ord) |-> [date |-> d, maturity |-> Rat(ord[i], YEARS)]]

Curves(dcs) == UNION {[D -> 1..MaxRate] : D \in SUBSET dcs}

NoReturn == [raised |-> NoError, value |-> <<>>]

InitRateIdle ==
    /\ shibor_ser = <<>>
    /\ near_term = RInt(0)
    /\ next_tern = RInt(0)
    /\ rate_ret = NoReturn

InitSigmaIdle ==
    /\ df_arg = <<>>
    /\ method_arg = ""
    /\ sigma_variable = NoLocals

InitVixIdle ==
    /\ near_sigma_variable = NoLocals
    /\ next_sigma_variable = NoLocals
    /\ variable = <<>>

InitBatchIdle ==
    /\ opt_data = <<>>
    /\ shibor_data = <<>>
    /\ filter_opt_data = <<>>
    /\ maturity_ser = <<>>
    /\ sel_rate = <<>>
    /\ data_all = <<>>

InitBatch ==
    /\ pc = "prepare"
    /\ raised = NoError
    /\ \E days \in [TradingDates -> (SUBSET BatchDays) \ {{}}], desc \in BOOLEAN :
          opt_data = FlattenSeq([d \in TradingDates |-> DayRows(d, days[d], desc)])
    /\ \E c \in Curves(BatchDayCounts) : shibor_data = [d \in TradingDates |-> c]
    /\ filter_opt_data = <<>>
    /\ maturity_ser = <<>>
    /\ sel_rate = <<>>
    /\ data_all = <<>>
    /\ InitRateIdle
    /\ InitSigmaIdle
    /\ InitVixIdle

UnchangedRate == UNCHANGED <<rateVars, sigmaVars, vixVars>>

\* lines 491-498
Step1 ==
    /\ pc = "prepare"
    /\ LET r == ApplySelector(opt_data, Dates(opt_data))
       IN  IF r.raised # NoError
           THEN /\ pc' = "raised"
                /\ raised' = r.raised
                /\ UNCHANGED <<filter_opt_data, maturity_ser>>
           ELSE /\ pc' = "rates"
                /\ filter_opt_data' = r.value
                /\ maturity_ser' = MaturitySer(r.value)
                /\ UNCHANGED raised
    /\ UNCHANGED <<opt_data, shibor_data, sel_rate, data_all>>
    /\ UnchangedRate

\* lines 502-505
Step2 ==
    /\ pc = "rates"
    /\ LET r == ApplyFreeRate(shibor_data, maturity_ser, Dates(filter_opt_data))
       IN  IF r.raised # NoError
           THEN /\ pc' = "raised"
                /\ raised' = r.raised
                /\ UNCHANGED sel_rate
           ELSE /\ pc' = "merge"
                /\ sel_rate' = r.value
                /\ UNCHANGED raised
    /\ UNCHANGED <<opt_data, shibor_data, filter_opt_data, maturity_ser, data_all>>
    /\ UnchangedRate

\* lines 508-531
Step3 ==
    /\ pc = "merge"
    /\ pc' = "done"
    /\ data_all' = Enrich(filter_opt_data, maturity_ser, sel_rate)
    /\ UNCHANGED <<raised, opt_data, shibor_data, filter_opt_data, maturity_ser, sel_rate>>
    /\ UnchangedRate

NextBatch == Step1 \/ Step2 \/ Step3

SpecBatch == InitBatch /\ [][NextBatch]_vars


(***************************************************************************)
(* Direct calls of the Rate Resolver.                                      *)
(***************************************************************************)
Terms == {Maturity(h) : h \in 0..(TicksPerDay * MaxDayCount + 1)}

InitRate ==
    /\ pc = "call_get_free_rate"
    /\ raised = NoError
    /\ shibor_ser \in Curves(1..MaxDayCount)
    /\ near_term \in Terms
    /\ next_tern \in Terms
    /\ rate_ret = NoReturn
    /\ InitBatchIdle
    /\ InitSigmaIdle
    /\ InitVixIdle

CallGetFreeRate ==
    /\ pc = "call_get_free_rate"
    /\ rate_ret' = _get_free_rate(shibor_ser, near_term, next_tern)
    /\ raised' = rate_ret'.raised
    /\ pc' = IF rate_ret'.raised = NoError THEN "returned" ELSE "raised"
    /\ UNCHANGED <<shibor_ser, near_term, next_tern>>
    /\ UNCHANGED <<batchVars, sigmaVars, vixVars>>

NextRate == CallGetFreeRate

SpecRate == InitRate /\ [][NextRate]_vars


(***************************************************************************)
(* Direct calls of _get_sigma.                                             *)
(***************************************************************************)
Types == <<"call", "put">>

\* the (strike, type) keys of the quotes of one term, ascending
KeySeq(maxStrike) ==
    [i \in 1..(2 * maxStrike) |->
        [exercise_price |-> (i + 1) \div 2, contract_type |-> Types[2 - (i % 2)]]]

NearTerm == Rat(filter_num_default, YEARS)

NextTerm == Rat(filter_num_default + 1, YEARS)

\* an enriched row (the columns of the table of lines 306-310)
Quote(key, close, maturity, near_rate, next_rate) ==
    [close |-> close, contract_type |-> key.contract_type,
     exercise_price |-> key.exercise_price, maturity |-> maturity,
     near_maturity |-> NearTerm, next_maturity |-> NextTerm,
     near_rate |-> near_rate, next_rate |-> next_rate]

\* the quotes of one term: price[k] is the close of key k, a key outside
\* DOMAIN price has no quote
QuoteRows(keys, price, maturity, near_rate, next_rate) ==
    LET present == SelectSeq(keys, LAMBDA k : k \in DOMAIN price)
    IN  [i \in 1..Len(present) |->
            Quote(present[i], price[present[i]], maturity, near_rate, next_rate)]

\* every pricing of the keys of a set
Prices(keys, closes) == UNION {[P -> closes] : P \in SUBSET keys}

\* every sequence of distinct elements of S
RECURSIVE Orderings(_)
Orderings(S) ==
    {<<>>} \cup UNION {{<<x>> \o o : o \in Orderings(S \ {x})} : x \in S}

TermOf(m) == IF m = "near" THEN NearTerm ELSE NextTerm

\* the closes of the tables with a missing leg and of the shuffled tables
FewCloses == 0..1

\* the near term carries rate 0, the next term rate MaxRate
InitSigmaCommon ==
    /\ pc = "call_get_sigma"
    /\ raised = NoError
    /\ method_arg \in {"near", "next"}
    /\ sigma_variable = NoLocals
    /\ InitBatchIdle
    /\ InitRateIdle
    /\ InitVixIdle

\* both legs of every strike 1..MaxStrike, closes 0..MaxPrice, rows ascending
InitComplete ==
    /\ InitSigmaCommon
    /\ \E price \in [Range(KeySeq(MaxStrike)) -> 0..MaxPrice] :
          df_arg = QuoteRows(KeySeq(MaxStrike), price, TermOf(method_arg), 0, MaxRate)

\* any legs of the strikes 1..MaxStrike missing, rows ascending
InitPartial ==
    /\ InitSigmaCommon
    /\ \E price \in Prices(Range(KeySeq(MaxStrike)), FewCloses) :
          df_arg = QuoteRows(KeySeq(MaxStrike), price, TermOf(method_arg), 0, MaxRate)

\* any legs of two strikes of 1..MaxStrike, in every row order
InitShuffled ==
    /\ InitSigmaCommon
    /\ \E lo \in 1..MaxStrike, hi \in 1..MaxStrike :
          /\ lo < hi
          /\ \E price \in Prices({k \in Range(KeySeq(MaxStrike)) :
                                     k.exercise_price \in {lo, hi}}, FewCloses) :
                \E o \in Orderings(DOMAIN price) :
                    /\ Len(o) = Cardinality(DOMAIN price)
                    /\ df_arg = QuoteRows(o, price, TermOf(method_arg), 0, MaxRate)

InitSigma == InitComplete \/ InitPartial \/ InitShuffled

CallGetSigma ==
    /\ pc = "call_get_sigma"
    /\ sigma_variable' = _get_sigma(df_arg, method_arg)
    /\ raised' = sigma_variable'.raised
    /\ pc' = IF sigma_variable'.raised = NoError THEN "returned" ELSE "raised"
    /\ UNCHANGED <<df_arg, method_arg, batchVars, rateVars, vixVars>>

NextGetSigma == CallGetSigma

SpecSigma == InitSigma /\ [][NextGetSigma]_vars

(***************************************************************************)
(* Calls of get_daily_vix.                                                 *)
(***************************************************************************)
\* how much dearer the next term's quotes are than the near term's
Dearer == [{"call", "put"} -> 0..1]

\* one trading day: both legs of every strike for the near term, closes
\* 0..MaxPrice, and the same strikes for the next term at dearer closes
InitVix ==
    /\ pc = "near_sigma"
    /\ raised = NoError
    /\ method_arg = ""
    /\ sigma_variable = NoLocals
    /\ \E price \in [Range(KeySeq(MaxStrike)) -> 0..MaxPrice], more \in Dearer :
          df_arg = QuoteRows(KeySeq(MaxStrike), price, NearTerm, 0, MaxRate)
                   \o QuoteRows(KeySeq(MaxStrike),
                                [k \in DOMAIN price |-> price[k] + more[k.contract_type]],
                                NextTerm, 0, MaxRate)
    /\ near_sigma_variable = NoLocals
    /\ next_sigma_variable = NoLocals
    /\ variable = <<>>
    /\ InitBatchIdle
    /\ InitRateIdle

\* lines 416-417
NearSigma ==
    /\ pc = "near_sigma"
    /\ LET near_df == SelectSeq(df_arg, LAMBDA r : r.maturity = r.near_maturity)
       IN  near_sigma_variable' = _get_sigma(near_df, "near")
    /\ raised' = near_sigma_variable'.raised
    /\ pc' = IF raised' = NoError THEN "next_sigma" ELSE "raised"
    /\ UNCHANGED <<next_sigma_variable, variable, sigmaVars, batchVars, rateVars>>

\* lines 420-421
NextSigma ==
    /\ pc = "next_sigma"
    /\ LET next_df == SelectSeq(df_arg, LAMBDA r : r.maturity = r.next_maturity)
       IN  next_sigma_variable' = _get_sigma(next_df, "next")
    /\ raised' = next_sigma_variable'.raised
    /\ pc' = IF raised' = NoError THEN "blend" ELSE "raised"
    /\ UNCHANGED <<near_sigma_variable, variable, sigmaVars, batchVars, rateVars>>

\* lines 425-463
Blend ==
    /\ pc = "blend"
    /\ LET vix == calc_vix(near_sigma_variable.sigma, next_sigma_variable.sigma,
                           near_sigma_variable.term, next_sigma_variable.term)
       IN  variable' = Variable(near_sigma_variable, next_sigma_variable, vix)
    /\ pc' = "returned"
    /\ UNCHANGED <<raised, near_sigma_variable, next_sigma_variable, sigmaVars,
                   batchVars, rateVars>>

NextVix == NearSigma \/ NextSigma \/ Blend

SpecVix == InitVix /\ [][NextVix]_vars

(***************************************************************************)
(* Claims about the Term Selector, the Rate Resolver and the Batch         *)
(* Preparer.                                                               *)
(***************************************************************************)
\* the distinct maturities of date d that are >= 7/365
Qualifying(d) ==
    {r.maturity : r \in {x \in Range(opt_data) :
                            x.date = d /\ x.maturity.n * YEARS >= 7 * x.maturity.d}}

Smallest(S) == CHOOSE x \in S : \A y \in S : x.n * y.d <= y.n * x.d

Step1Done == pc \in {"rates", "merge", "done"}

BatchEnded == pc \in {"done", "raised"}

\* C2: on every trading day with at least two distinct maturities >= 7/365
\* the selector (n=1, filter_num=7) retains exactly the day's quotes whose
\* maturity is one of the two smallest such maturities, near < next, none
\* below 7/365; and that is what step 1 of the batch holds for the day.
C2_TwoSmallestRetained ==
    \A d \in TradingDates :
        Cardinality(Qualifying(d)) >= 2 =>
            LET near == Smallest(Qualifying(d))
                next == Smallest(Qualifying(d) \ {near})
                want == SelectSeq(Group(opt_data, d),
                                  LAMBDA r : r.maturity \in {near, next})
                got == _get_near_or_next_options(Group(opt_data, d), 1, 7)
            IN  /\ got.raised = NoError
                /\ got.value = want
                /\ near.n * next.d < next.n * near.d
                /\ \A i \in 1..Len(got.value) :
                       got.value[i].maturity.n * YEARS >= 7 * got.value[i].maturity.d
                /\ Step1Done => Group(filter_opt_data, d) = want

\* step 1 has run on a day with three qualifying maturities and one below
\* the filter, and kept two of the four quotes
C2_Witness ==
    /\ pc = "rates"
    /\ \E d \in TradingDates :
          /\ Cardinality(Qualifying(d)) = 3
          /\ Len(Group(opt_data, d)) = 4
          /\ Len(Group(filter_opt_data, d)) = 2

Deficient(d) == Cardinality(Qualifying(d)) < 2

\* C3: a day with fewer than two distinct maturities >= 7/365 yields an
\* empty selection without raising, and the batch ends as it would without
\* that day's quotes.
C3_DeficientDaySkipped ==
    (BatchEnded /\ \E d \in TradingDates : Deficient(d)) =>
        LET others == SelectSeq(opt_data, LAMBDA r : ~Deficient(r.date))
            alone == prepare_data2calc(others, shibor_data)
        IN  /\ \A d \in TradingDates : Deficient(d) =>
                   _get_near_or_next_options(Group(opt_data, d), 1, 7) = NoReturn
            /\ alone.raised = NoError =>
                   /\ pc = "done"
                   /\ raised = NoError
                   /\ data_all = alone.value

\* the dedicated error of the Rate Resolver, with the requested maturities
MissingRateError(near, next) ==
    [type |-> "KeyError", msg |-> "no matching shibor",
     printed |-> <<near, next,
                   RInt(IF round(RMul(near, RInt(365))) >= 1
                        THEN round(RMul(near, RInt(365))) ELSE 1),
                   RInt(round(RMul(next, RInt(365))))>>]

\* C4: the near day-count is max(round(near_term*365), 1), the next one
\* round(next_term*365); a curve without an entry at either makes the call
\* fail with the dedicated missing-rate error carrying the maturities, and
\* a curve with both returns (curve[near day-count], curve[next day-count]).
C4_MissingRateError ==
    pc \in {"returned", "raised"} =>
        LET rn == round(RMul(near_term, RInt(365)))
            nd == IF rn >= 1 THEN rn ELSE 1
            xd == round(RMul(next_tern, RInt(365)))
        IN  IF nd \notin DOMAIN shibor_ser \/ xd \notin DOMAIN shibor_ser
            THEN /\ pc = "raised"
                 /\ rate_ret.raised = MissingRateError(near_term, next_tern)
                 /\ rate_ret.value = <<>>
            ELSE /\ pc = "returned"
                 /\ rate_ret.raised = NoError
                 /\ rate_ret.value = <<shibor_ser[nd], shibor_ser[xd]>>

\* C8: on every day of the output near_rate is the curve value at the near
\* maturity's day-count and next_rate the one at the next maturity's, and
\* near_maturity / next_maturity are the smaller and larger retained
\* maturity of the day.
C8_RatesFollowMaturities ==
    pc = "done" =>
        \A i \in 1..Len(data_all) :
            LET row == data_all[i]
                near == Smallest(Qualifying(row.date))
                next == Smallest(Qualifying(row.date) \ {near})
            IN  /\ row.near_maturity = near
                /\ row.next_maturity = next
                /\ row.near_rate =
                       shibor_data[row.date][round(RMul(near, RInt(365)))]
                /\ row.next_rate =
                       shibor_data[row.date][round(RMul(next, RInt(365)))]


(***************************************************************************)
(* Claims about the Forward Price Estimator, the Mid-Quote Synthesizer and *)
(* the Strike-Weight Calculator, read off the quotes given to _get_sigma.  *)
(***************************************************************************)
HasQuote(k, t) ==
    \E r \in Range(df_arg) : r.exercise_price = k /\ r.contract_type = t

CloseOf(k, t) ==
    (CHOOSE r \in Range(df_arg) : r.exercise_price = k /\ r.contract_type = t).close

\* the strikes quoted with both legs: the strikes of the strike matrix
Complete == {k \in 1..MaxStrike : HasQuote(k, "call") /\ HasQuote(k, "put")}

AbsDiffOf(k) ==
    IF CloseOf(k, "call") >= CloseOf(k, "put")
    THEN CloseOf(k, "call") - CloseOf(k, "put")
    ELSE CloseOf(k, "put") - CloseOf(k, "call")

\* the complete strikes strictly below the forward price _get_sigma computed
BelowF == {k \in Complete : k * sigma_variable.F.d < sigma_variable.F.n}

\* _get_sigma has run up to its forward price and mid-quote table
ForwardDone == pc \in {"returned", "raised"} /\ sigma_variable.strike_row # <<>>

Anchor == sigma_variable.strike_row[1]

\* the anchor row of the table whose rows are rows
AnchorOf(rows) == _get_min_strike_diff(dropna(_build_strike_matrix(rows).value))

\* C5: the anchor row is the strike with the globally minimal |call - put|,
\* the lowest such strike on a tie, F = strike + e^(R*T)*(C - P) at it, and
\* every permutation of the quote rows gives the same anchor row.
C5_AnchorGlobalMinLowestStrike ==
    ForwardDone =>
        /\ Anchor.exercise_price \in Complete
        /\ Anchor.call = <<CloseOf(Anchor.exercise_price, "call")>>
        /\ Anchor.put = <<CloseOf(Anchor.exercise_price, "put")>>
        /\ \A k \in Complete :
              /\ AbsDiffOf(Anchor.exercise_price) <= AbsDiffOf(k)
              /\ AbsDiffOf(k) = AbsDiffOf(Anchor.exercise_price)
                    => Anchor.exercise_price <= k
        /\ sigma_variable.F =
              RAdd(RInt(Anchor.exercise_price),
                   RMul(RAdd(RInt(1), RMul(RInt(sigma_variable.term_rate),
                                           sigma_variable.term)),
                        RInt(Anchor.call[1] - Anchor.put[1])))
        /\ Len(df_arg) <= 4 =>
              \A o \in Orderings(Range(df_arg)) :
                  Len(o) = Len(df_arg) => AnchorOf(o).value = <<Anchor>>

\* a table whose rows are not in ascending strike order, with two strikes
\* tied for the minimal |diff|, and the lower one taken
C5_Witness ==
    /\ ForwardDone
    /\ Len(df_arg) = 4
    /\ df_arg[1].exercise_price > df_arg[4].exercise_price
    /\ \E k \in Complete :
          /\ k > Anchor.exercise_price
          /\ AbsDiffOf(k) = AbsDiffOf(Anchor.exercise_price)
          /\ CloseOf(k, "call") # CloseOf(Anchor.exercise_price, "call")

Table == sigma_variable.median_table

K0 == sigma_variable.K0

\* C6: with a strike strictly below F the mid-quote table has exactly the
\* strikes of the strike matrix, once each and ascending, with the put price
\* below K0, the call price above K0 and (call + put)/2 at K0.
C6_MidQuoteTable ==
    (ForwardDone /\ BelowF # {}) =>
        /\ Col(Table, "exercise_price") = SortInts(Complete)
        /\ \A i \in 1..Len(Table) :
              LET k == Table[i].exercise_price
                  v == Table[i].value
              IN  /\ k * K0.d < K0.n => v = RInt(CloseOf(k, "put"))
                  /\ k * K0.d > K0.n => v = RInt(CloseOf(k, "call"))
                  /\ k * K0.d = K0.n
                        => 2 * v.n = (CloseOf(k, "call") + CloseOf(k, "put")) * v.d

\* a table with a put region, a K0 row whose mean is neither leg, and a call
\* region
C6_Witness ==
    /\ ForwardDone
    /\ BelowF # {}
    /\ Len(Table) = 3
    /\ K0 = RInt(2)
    /\ CloseOf(2, "call") # CloseOf(2, "put")

\* C7: with no strike strictly below F the synthesizer does not fail, sets
\* K0 = F, warns, and returns the call price of every strike >= K0.
C7_FallbackKeepsStrikeAtF ==
    (ForwardDone /\ BelowF = {}) =>
        /\ K0 = sigma_variable.F
        /\ sigma_variable.warned
        /\ Col(Table, "exercise_price") =
              SortInts({k \in Complete : k * K0.d >= K0.n})
        /\ \A i \in 1..Len(Table) :
              Table[i].value = RInt(CloseOf(Table[i].exercise_price, "call"))

\* C9: with a strike strictly below F, K0 is a strike of the matrix below F
\* whose |call - put| is minimal among the strikes below F.
C9_K0MinimalAbsDiffBelowF ==
    (ForwardDone /\ BelowF # {}) =>
        /\ K0.d = 1
        /\ K0.n \in BelowF
        /\ \A k \in BelowF : AbsDiffOf(K0.n) <= AbsDiffOf(k)

DeltaK == sigma_variable.delta_k

\* C10: for a table of n >= 2 ascending strikes the weights have the table's
\* strikes in the table's order, K_2 - K_1 at the first, K_n - K_(n-1) at
\* the last and 0.5*(K_(i+1) - K_(i-1)) at every interior strike.
C10_DeltaKWeights ==
    (ForwardDone /\ Len(Table) >= 2) =>
        LET K == Col(Table, "exercise_price")
            n == Len(K)
        IN  /\ pc = "returned"
            /\ Col(DeltaK, "exercise_price") = K
            /\ DeltaK[1].value = RInt(K[2] - K[1])
            /\ DeltaK[n].value = RInt(K[n] - K[n - 1])
            /\ \A i \in 2..(n - 1) :
                  2 * DeltaK[i].value.n = (K[i + 1] - K[i - 1]) * DeltaK[i].value.d

\* _get_sigma has returned with a table of two strikes that are not adjacent
C10_Witness ==
    /\ pc = "returned"
    /\ Len(Table) = 2
    /\ Table[2].exercise_price - Table[1].exercise_price = 2
    /\ DeltaK[1].value = RInt(2)
    /\ DeltaK[2].value = RInt(2)


(***************************************************************************)
(* Claim about get_daily_vix.                                              *)
(***************************************************************************)
\* C1: when get_daily_vix returns, every intermediate artifact holds under
\* 'near' the value of the near-term run of _get_sigma and under 'next' the
\* value of the next-term run.
C1_NextHoldsNextTermValues ==
    (pc = "returned" /\ variable # <<>>) =>
        /\ variable.strike_matrix = [near |-> near_sigma_variable.strike_matrix,
                                     next |-> next_sigma_variable.strike_matrix]
        /\ variable.F = [near |-> near_sigma_variable.F,
                         next |-> next_sigma_variable.F]
        /\ variable.K = [near |-> near_sigma_variable.K0,
                         next |-> next_sigma_variable.K0]
        /\ variable.median_table = [near |-> near_sigma_variable.median_table,
                                    next |-> next_sigma_variable.median_table]
        /\ variable.delta_k = [near |-> near_sigma_variable.delta_k,
                               next |-> next_sigma_variable.delta_k]
        /\ variable.sigma = [near |-> near_sigma_variable.sigma,
                             next |-> next_sigma_variable.sigma]
        /\ variable.rate = [near |-> near_sigma_variable.term_rate,
                            next |-> next_sigma_variable.term_rate]
        /\ variable.term = [near |-> near_sigma_variable.term,
                            next |-> next_sigma_variable.term]

====
